---- MODULE Spec2Model ----
(***************************************************************************)
(* The transaction ledger of ui/src/transaction.ts: a svelte writable      *)
(* store holding the list of managed transactions, the operations add,     *)
(* updateStatus, cap and updateAll on it, the interval timer, and a        *)
(* presentation-layer subscriber of the exported store.                    *)
(*                                                                         *)
(* JavaScript runs every handler to completion, so one action is one whole *)
(* call: the store updates it makes and every subscriber notification     *)
(* those updates trigger.                                                  *)
(***************************************************************************)
EXTENDS Integers, Sequences, FiniteSets, TLC

VARIABLES
  txs,          \* the value of `store`: the list of Tx records
  subscribers,  \* the store's subscribers, in subscription order
  delivered,    \* the list the presentation subscriber was last called with
  nextId,       \* number of add calls so far + 1 (identity of the next Tx object)
  last,         \* the last call: its name, its inputs, what it looked up and sent
  transactions, \* the pool module's sketch ledger: its `transactions` array
  poolLast,     \* the last call on the sketch ledger and what its lookups returned
  built,        \* the last Tx a smart constructor built, with its input
  historyStore,     \* the router's history: a list of routes
  activeRouteStore, \* the router's active (loaded) route
  windowState,      \* window.history.state
  calls,            \* the router calls awaiting their route load, in call order
  started,          \* number of router calls started so far (it stops at MaxCalls)
  routerLast,       \* the router call that last started or completed
  idCounter,    \* the alerts state: the id of the next alert shown
  all,          \* the alerts state: the alerts on show
  removedIds,   \* the ids of the alerts that Remove has taken off
  alertsLast    \* the action the alerts reducer last reduced

ledgerVars == <<txs, subscribers, delivered, nextId, last>>
poolVars == <<transactions, poolLast>>
builtVars == <<built>>
routerVars ==
  <<historyStore, activeRouteStore, windowState, calls, started, routerLast>>
alertsVars == <<idCounter, all, removedIds, alertsLast>>

vars ==
  <<txs, subscribers, delivered, nextId, last, transactions, poolLast, built,
    historyStore, activeRouteStore, windowState, calls, started, routerLast,
    idCounter, all, removedIds, alertsLast>>

\* What the calls on one component leave alone: the other components.
outsideLedger == <<poolVars, builtVars, routerVars, alertsVars>>
outsidePool == <<ledgerVars, builtVars, routerVars, alertsVars>>
outsideBuilt == <<ledgerVars, poolVars, routerVars, alertsVars>>
outsideRouter == <<ledgerVars, poolVars, builtVars, alertsVars>>
outsideAlerts == <<ledgerVars, poolVars, builtVars, routerVars>>

-----------------------------------------------------------------------------
(* Bounds of the model *)

MaxAdds == 2          \* add calls in Spec
MaxUpdates == 1       \* updateStatus calls in Spec
MaxAddsCap == 8       \* add calls in SpecCap (one more than the capacity)
MaxUpdatesCap == 1    \* updateStatus calls in SpecCap
MaxPoolAdds == 2      \* addTx calls in SpecPool
MaxBlock == 2         \* highest block number in SpecTx
MaxInFlight == 2      \* router calls awaiting their load at once in SpecRouter
MaxCalls == 4         \* router calls started in SpecRouter
MaxShows == 3         \* Show actions reduced in SpecAlerts

-----------------------------------------------------------------------------
(* Types of transaction.ts *)

PendingApproval == "Pending Approval"
AwaitingInclusion == "Awaiting inclusion"
Included == "Included"
Rejected == "Rejected"

TxStatus == {PendingApproval, AwaitingInclusion, Included, Rejected}

\* The result of a lookup that has no answer (TxStatus | undefined).
Undefined == "undefined"

Hashes == {"0x1", "0x2"}

\* The ContractTransaction a smart constructor reads: its hash, its block
\* number (0 standing for an absent one) and its value.
ContractTransaction == [hash : Hashes, blockNumber : {0, 1}, value : {100}]

\* A Tx; id is the identity of the JavaScript object (the add call that pushed it).
Tx(id, hash, status, inner) ==
  [id |-> id, hash |-> hash, status |-> status, inner |-> inner]

\* The smart constructors amountPerBlock, beneficiaries, collect and topUp.
amountPerBlock(id, txc) ==
  Tx(id, txc.hash,
     IF txc.blockNumber # 0 THEN Included ELSE AwaitingInclusion,
     [kind |-> "Update Monthly Contribution", amount |-> txc.value])

beneficiaries(id, txc) ==
  Tx(id, txc.hash,
     IF txc.blockNumber # 0 THEN Included ELSE AwaitingInclusion,
     [kind |-> "Update beneficiaries"])

\* collect with the two statuses the wrong way round.
collectSwapped(id, txc) ==
  Tx(id, txc.hash,
     IF txc.blockNumber # 0 THEN AwaitingInclusion ELSE Included,
     [kind |-> "Collect Funds", amount |-> txc.value])

collect(id, txc) ==
  Tx(id, txc.hash,
     IF txc.blockNumber # 0 THEN Included ELSE AwaitingInclusion,
     [kind |-> "Collect Funds", amount |-> txc.value])

topUp(id, txc) ==
  Tx(id, txc.hash,
     IF txc.blockNumber # 0 THEN Included ELSE AwaitingInclusion,
     [kind |-> "Top Up", amount |-> txc.value])

Capacity == 7

Min(a, b) == IF a < b THEN a ELSE b

-----------------------------------------------------------------------------
(* Subscribers of the store *)

ViewSubscriber == [kind |-> "view", hash |-> "", status |-> ""]

\* The callback updateStatus hands to store.subscribe, closed over hash and status.
StatusSubscriber(hash, status) ==
  [kind |-> "updateStatus", hash |-> hash, status |-> status]

\* find taking the last match instead of the first (findLast).
findLast(list, hash) ==
  IF \E i \in 1..Len(list) : list[i].hash = hash
  THEN CHOOSE i \in 1..Len(list) :
         /\ list[i].hash = hash
         /\ \A j \in (i + 1)..Len(list) : list[j].hash # hash
  ELSE 0

\* txs.find(tx => tx.hash === hash): the index of the first match, 0 if none.
find(list, hash) ==
  IF \E i \in 1..Len(list) : list[i].hash = hash
  THEN CHOOSE i \in 1..Len(list) :
         /\ list[i].hash = hash
         /\ \A j \in 1..(i - 1) : list[j].hash # hash
  ELSE 0

\* RunSubscriber with the hash test lost: the status is written to every record.
RunSubscriberEvery(sub, list) ==
  IF sub.kind = "updateStatus"
  THEN [i \in 1..Len(list) |-> [list[i] EXCEPT !.status = sub.status]]
  ELSE list

\* RunSubscriber with a missing `if (tx)`: with no match the status is
\* written to the first record.
RunSubscriberUnguarded(sub, list) ==
  IF sub.kind = "updateStatus" /\ list # <<>>
  THEN IF find(list, sub.hash) # 0
       THEN [list EXCEPT ![find(list, sub.hash)].status = sub.status]
       ELSE [list EXCEPT ![1].status = sub.status]
  ELSE list

\* One run of a subscriber's callback on the list it is called with.
RunSubscriber(sub, list) ==
  IF sub.kind = "updateStatus" /\ find(list, sub.hash) # 0
  THEN [list EXCEPT ![find(list, sub.hash)].status = sub.status]
  ELSE list

\* The list after the first n subscribers ran on it, in subscription order.
RECURSIVE RunFirst(_, _, _)
RunFirst(list, subs, n) ==
  IF n = 0 THEN list
  ELSE RunSubscriber(subs[n], RunFirst(list, subs, n - 1))

\* store.set that stores the list and calls no subscriber.
NotifyNone(list, subs) == list

\* store.set(list): every subscriber is called with the list.
Notify(list, subs) == RunFirst(list, subs, Len(subs))

ViewIndex(subs) ==
  IF \E i \in 1..Len(subs) : subs[i].kind = "view"
  THEN CHOOSE i \in 1..Len(subs) : subs[i].kind = "view"
  ELSE 0

\* What the presentation subscriber is called with during store.set(list):
\* the list as the subscribers before it left it.
ViewSeen(list, subs) == RunFirst(list, subs, ViewIndex(subs) - 1)

\* The lists the presentation subscriber is called with by store.set of each
\* of the given lists in turn; none when it has not subscribed.
Sent(lists, subs) ==
  IF ViewIndex(subs) = 0 THEN <<>>
  ELSE [i \in 1..Len(lists) |-> ViewSeen(lists[i], subs)]

\* The length of the longest of the given lists.
RECURSIVE Longest(_)
Longest(lists) ==
  IF lists = <<>> THEN 0
  ELSE LET rest == Longest(Tail(lists))
       IN IF Len(Head(lists)) > rest THEN Len(Head(lists)) ELSE rest

-----------------------------------------------------------------------------
(* The operations *)

\* A call as `last` records it: its name, the number of lookupStatus calls it
\* made, the number of notifications the presentation subscriber got during
\* it and the length of the longest list among them.
Call(op, lookups, notified) ==
  [op |-> op, lookups |-> lookups,
   sent |-> Len(notified), longest |-> Longest(notified)]

\* cap with the bound off by one: Math.min(txs.length, 7 + 1).
capOffByOne(list) == SubSeq(list, 1, Min(Len(list), Capacity + 1))

\* cap's update function: txs.length = Math.min(txs.length, 7)
cap(list) == SubSeq(list, 1, Min(Len(list), Capacity))

add(tx) ==
  LET pushed == Append(txs, tx)
      afterPush == Notify(pushed, subscribers)
      capped == cap(afterPush)
      notified == Sent(<<pushed, capped>>, subscribers)
  IN /\ txs' = Notify(capped, subscribers)
     /\ nextId' = nextId + 1
     /\ delivered' = IF notified = <<>> THEN delivered ELSE notified[2]
     /\ last' = Call("add", 0, notified)
     /\ UNCHANGED <<subscribers, outsideLedger>>

updateStatus(hash, status) ==
  /\ subscribers' = Append(subscribers, StatusSubscriber(hash, status))
  /\ txs' = RunSubscriber(StatusSubscriber(hash, status), txs)
  /\ last' = Call("updateStatus", 0, <<>>)
  /\ UNCHANGED <<delivered, nextId, outsideLedger>>

\* lookupStatus: one of the four statuses, drawn at random.
lookupStatus == TxStatus

\* refresh as a filter that drops the records the lookup reports rejected.
refreshDropRejected(list, lk) ==
  LET kept == {i \in 1..Len(list) : lk[i] # Rejected}
      nth(n) == CHOOSE i \in kept : Cardinality({j \in kept : j <= i}) = n
  IN [n \in 1..Cardinality(kept) |-> [list[nth(n)] EXCEPT !.status = lk[nth(n)]]]

\* The forEach of updateAll, lk[i] being what lookupStatus returned for txs[i].
refresh(list, lk) ==
  [i \in 1..Len(list) |->
     IF lk[i] # Undefined THEN [list[i] EXCEPT !.status = lk[i]] ELSE list[i]]

updateAll(lk) ==
  LET looked == refresh(txs, lk)
      notified == Sent(<<looked>>, subscribers)
  IN /\ txs' = Notify(looked, subscribers)
     /\ delivered' = IF notified = <<>> THEN delivered ELSE notified[1]
     /\ last' = Call("updateAll", Len(lk), notified)
     /\ UNCHANGED <<subscribers, nextId, outsideLedger>>

\* The interval callback () => updateAll: it evaluates to the function and
\* calls nothing.
timer ==
  /\ last' = Call("timer", 0, <<>>)
  /\ UNCHANGED <<txs, subscribers, delivered, nextId, outsideLedger>>

\* The presentation layer's store.subscribe(run): run is called with the
\* current value at once.
subscribe ==
  /\ ViewIndex(subscribers) = 0
  /\ subscribers' = Append(subscribers, ViewSubscriber)
  /\ delivered' = txs
  /\ last' = Call("subscribe", 0, <<txs>>)
  /\ UNCHANGED <<txs, nextId, outsideLedger>>

\* A consumer holding the exported writable store calls store.set(list).
storeSet(list) ==
  LET notified == Sent(<<list>>, subscribers)
  IN /\ txs' = Notify(list, subscribers)
     /\ delivered' = IF notified = <<>> THEN delivered ELSE notified[1]
     /\ last' = Call("set", 0, notified)
     /\ UNCHANGED <<subscribers, nextId, outsideLedger>>

\* The presentation subscriber is called with the store's own array: a
\* consumer holding it calls pop() on it. Nobody is notified.
listPop ==
  /\ ViewIndex(subscribers) # 0
  /\ txs # <<>>
  /\ txs' = SubSeq(txs, 1, Len(txs) - 1)
  /\ last' = Call("pop", 0, <<>>)
  /\ UNCHANGED <<subscribers, delivered, nextId, outsideLedger>>

\* The outcome of a status lookup that throws.
Throws == "throws"

\* The position of the first lookup that throws.
FirstThrow(lk) ==
  CHOOSE i \in 1..Len(lk) :
    /\ lk[i] = Throws
    /\ \A j \in 1..(i - 1) : lk[j] # Throws

\* updateAll when a lookup throws: the exception leaves the forEach and the
\* update function, so the records before it keep the statuses written to
\* them, the records from it on are not visited, and store.update sets and
\* notifies nothing.
updateAllThrows(lk) ==
  /\ \E i \in 1..Len(lk) : lk[i] = Throws
  /\ txs' = [i \in 1..Len(txs) |->
              IF i < FirstThrow(lk) THEN refresh(txs, lk)[i] ELSE txs[i]]
  /\ last' = Call("updateAll threw", FirstThrow(lk), <<>>)
  /\ UNCHANGED <<subscribers, delivered, nextId, outsideLedger>>

-----------------------------------------------------------------------------
(* The smart constructors applied to contract transactions *)

\* Contract transactions not yet in a block (block number 0) and in one of
\* the blocks 1..MaxBlock.
SubmittedTransactions ==
  [hash : Hashes \cup {"0x3"}, blockNumber : 0..MaxBlock, value : {0, 100, 200}]

Built(by, txc, tx) == [by |-> by, txc |-> txc, tx |-> tx]

AmountPerBlock ==
  /\ \E txc \in SubmittedTransactions :
       built' = Built("amountPerBlock", txc, amountPerBlock(0, txc))
  /\ UNCHANGED outsideBuilt

Beneficiaries ==
  /\ \E txc \in SubmittedTransactions :
       built' = Built("beneficiaries", txc, beneficiaries(0, txc))
  /\ UNCHANGED outsideBuilt

Collect ==
  /\ \E txc \in SubmittedTransactions :
       built' = Built("collect", txc, collect(0, txc))
  /\ UNCHANGED outsideBuilt

TopUp ==
  /\ \E txc \in SubmittedTransactions :
       built' = Built("topUp", txc, topUp(0, txc))
  /\ UNCHANGED outsideBuilt

-----------------------------------------------------------------------------
(* The sketch ledger of the pool module ("Temporary sketch code") *)

\* Its TxStatus is a numeric enum.
PoolPendingApproval == 0
PoolAwaitingInclusion == 1
PoolIncluded == 2
PoolRejected == 3

PoolTxStatus ==
  {PoolPendingApproval, PoolAwaitingInclusion, PoolIncluded, PoolRejected}

\* if (newStatus): a number is truthy unless it is 0.
Truthy(n) == n # 0

PoolCall(op, lk) == [op |-> op, lk |-> lk]

addTx(tx) ==
  /\ transactions' = Append(transactions, tx)
  /\ poolLast' = PoolCall("addTx", <<>>)
  /\ UNCHANGED outsidePool

updateTxStatus(hash, status) ==
  /\ transactions' =
       IF find(transactions, hash) # 0
       THEN [transactions EXCEPT ![find(transactions, hash)].status = status]
       ELSE transactions
  /\ poolLast' = PoolCall("updateTxStatus", <<>>)
  /\ UNCHANGED outsidePool

\* The sketch's lookupStatus: one of the four statuses, drawn at random.
poolLookupStatus == PoolTxStatus

\* The sketch's updateAll, lk[i] being what lookupStatus returned for the
\* i-th transaction.
poolUpdateAll(lk) ==
  /\ transactions' =
       [i \in 1..Len(transactions) |->
          IF Truthy(lk[i]) THEN [transactions[i] EXCEPT !.status = lk[i]]
          ELSE transactions[i]]
  /\ poolLast' = PoolCall("updateAll", lk)
  /\ UNCHANGED outsidePool

AddTx ==
  /\ Len(transactions) < MaxPoolAdds
  /\ \E hash \in Hashes, status \in PoolTxStatus :
       addTx([hash |-> hash, status |-> status])

UpdateTxStatus ==
  \E hash \in Hashes, status \in PoolTxStatus : updateTxStatus(hash, status)

PoolUpdateAll ==
  \E lk \in [1..Len(transactions) -> poolLookupStatus] : poolUpdateAll(lk)

-----------------------------------------------------------------------------
(* The router: push, pop, initialize and setHistory *)

DEFAULT_ROUTE == [type |-> "profile", activeTab |-> "projects"]
INITIAL_ROUTE == [type |-> "loading"]

\* The routes pushed: the default route and the settings route.
Routes == {DEFAULT_ROUTE, [type |-> "settings"]}

\* The route of a call that takes none (pop, initialize).
NoRoute == [type |-> "none"]

\* window.history.state before any replaceState.
Null == <<>>

HistoryLimit == 10

\* The route that loadRoute resolves to: the loaded form of the route.
loadRoute(route) == [type |-> "loaded", route |-> route]

\* slice taking the first n entries: list.slice(0, n).
sliceFirst(list, n) == SubSeq(list, 1, Min(Len(list), n))

\* list.slice(-n): the last n entries of the list, all of it if it has fewer.
sliceLast(list, n) ==
  SubSeq(list, IF Len(list) > n THEN Len(list) - n + 1 ELSE 1, Len(list))

\* A router call as routerLast records it. overlapped: another call was
\* waiting for its load during this one.
RouterCall(op, phase, route, read, overlapped) ==
  [op |-> op, phase |-> phase, route |-> route, read |-> read,
   overlapped |-> overlapped]

\* setHistory up to its await: an empty history throws, otherwise the load of
\* the last route is started and the call waits for it. read is the history
\* the caller got from the store and route the route it was given.
setHistory(op, route, read, history) ==
  /\ history # <<>>
  /\ calls' = Append([i \in 1..Len(calls) |->
                        [calls[i] EXCEPT !.overlapped = TRUE]],
                      [op |-> op, route |-> route, read |-> read,
                       history |-> history,
                       loadedRoute |-> loadRoute(history[Len(history)]),
                       overlapped |-> calls # <<>>])
  /\ started' = Min(started + 1, MaxCalls)
  /\ routerLast' = RouterCall(op, "start", route, read, calls # <<>>)
  /\ UNCHANGED <<historyStore, activeRouteStore, windowState, outsideRouter>>

push(newRoute) ==
  setHistory("push", newRoute, historyStore,
             sliceLast(Append(historyStore, newRoute), HistoryLimit))

pop ==
  /\ Len(historyStore) > 1
  /\ setHistory("pop", NoRoute, historyStore,
                SubSeq(historyStore, 1, Len(historyStore) - 1))

initialize ==
  setHistory("initialize", NoRoute, windowState,
             IF windowState = Null THEN <<DEFAULT_ROUTE>> ELSE windowState)

\* The stores set from the history the current store holds instead of the
\* call's own: the active route is loaded from the store's last entry.
setStoresFromStore(c) ==
  /\ activeRouteStore' = loadRoute(historyStore[Len(historyStore)])
  /\ historyStore' = c.history
  /\ windowState' = c.history

\* The three writes of setHistory after its await.
setStores(c) ==
  /\ activeRouteStore' = c.loadedRoute
  /\ historyStore' = c.history
  /\ windowState' = c.history

\* setHistory from its await on, for the i-th waiting call: its load has
\* resolved.
resume(i) ==
  /\ i \in 1..Len(calls)
  /\ setStores(calls[i])
  /\ calls' = [j \in 1..(Len(calls) - 1) |->
                IF j < i THEN calls[j] ELSE calls[j + 1]]
  /\ routerLast' = RouterCall(calls[i].op, "done", calls[i].route,
                              calls[i].read, calls[i].overlapped)
  /\ UNCHANGED <<started, outsideRouter>>

\* Calls that may overlap.
MayStart == Len(calls) < MaxInFlight /\ started < MaxCalls

Push == MayStart /\ \E newRoute \in Routes : push(newRoute)

Pop == MayStart /\ pop

Initialize == MayStart /\ initialize

Resume == \E i \in 1..Len(calls) : resume(i)

\* Calls that are awaited one after the other.
PushSeq == calls = <<>> /\ \E newRoute \in Routes : push(newRoute)

PopSeq == calls = <<>> /\ pop

InitializeSeq == calls = <<>> /\ initialize

-----------------------------------------------------------------------------
(* The alerts store: initialState and reducer *)

\* The severities of Molecule.Alert; the reducer copies them untouched.
Severities == {"Info", "Error"}

\* The ids a payload may carry: ids of alerts shown, on show or not, and one
\* that no alert will get.
PayloadIds == 0..(MaxShows + 1)

\* The alert records that Show and Remove carry.
Alerts == [severity : Severities, message : {"m"}, id : PayloadIds]

\* The largest int: ints have 32 bits.
Int32Max == 2147483647

\* n + 1 on ints.
succ(n) == IF n = Int32Max THEN -Int32Max - 1 ELSE n + 1

\* Belt.Array.keep(list, a => alert.id !== a.id).
keep(list, alert) ==
  LET RECURSIVE kept(_)
      kept(n) ==
        IF n = 0 THEN <<>>
        ELSE IF alert.id # list[n].id THEN Append(kept(n - 1), list[n])
        ELSE kept(n - 1)
  IN kept(Len(list))

\* Show appending the alert with the id its payload carries.
ShowKeepsId(alert) ==
  /\ idCounter' = succ(idCounter)
  /\ all' = Append(all, alert)
  /\ removedIds' = removedIds
  /\ alertsLast' = [type |-> "Show", alert |-> alert]
  /\ UNCHANGED outsideAlerts

\* reducer(state, Show(alert)).
Show(alert) ==
  /\ idCounter' = succ(idCounter)
  /\ all' = Append(all, [alert EXCEPT !.id = idCounter])
  /\ removedIds' = removedIds
  /\ alertsLast' = [type |-> "Show", alert |-> alert]
  /\ UNCHANGED outsideAlerts

\* reducer(state, Remove(alert)).
Remove(alert) ==
  /\ idCounter' = idCounter
  /\ all' = keep(all, alert)
  /\ removedIds' = removedIds \cup {all[i].id : i \in {j \in 1..Len(all) :
                                                         all[j].id = alert.id}}
  /\ alertsLast' = [type |-> "Remove", alert |-> alert]
  /\ UNCHANGED outsideAlerts

ShowAlert == idCounter < MaxShows /\ \E alert \in Alerts : Show(alert)

RemoveAlert == \E alert \in Alerts : Remove(alert)

-----------------------------------------------------------------------------
(* Specifications *)

Init ==
  /\ txs = <<>>
  /\ subscribers = <<>>
  /\ delivered = <<>>
  /\ nextId = 1
  /\ last = Call("init", 0, <<>>)
  /\ transactions = <<>>
  /\ poolLast = PoolCall("init", <<>>)
  /\ built = Built("none", [hash |-> "", blockNumber |-> 0, value |-> 0],
                   Tx(0, "", "", <<>>))
  /\ historyStore = <<DEFAULT_ROUTE>>
  /\ activeRouteStore = INITIAL_ROUTE
  /\ windowState = Null
  /\ calls = <<>>
  /\ started = 0
  /\ routerLast = RouterCall("init", "done", NoRoute, <<>>, FALSE)
  /\ idCounter = 0
  /\ all = <<>>
  /\ removedIds = {}
  /\ alertsLast = [type |-> "init", alert |-> [severity |-> "", message |-> "", id |-> 0]]

StatusSubscribers(subs) ==
  Cardinality({i \in 1..Len(subs) : subs[i].kind = "updateStatus"})

Add ==
  /\ nextId <= MaxAdds
  /\ \E txc \in ContractTransaction :
       add(topUp(nextId, txc))

UpdateStatus ==
  /\ StatusSubscribers(subscribers) < MaxUpdates
  /\ \E hash \in Hashes, status \in TxStatus : updateStatus(hash, status)

UpdateAll == \E lk \in [1..Len(txs) -> lookupStatus] : updateAll(lk)

Timer == timer

Subscribe == subscribe

\* The ledger and its callers.
Next == Add \/ UpdateStatus \/ UpdateAll \/ Timer

Spec == Init /\ [][Next]_vars

\* The ledger filled beyond its capacity: transactions not yet in a block are
\* added, one status is set by hand, and a refresh round gets the same answer
\* for every record.
AddCap ==
  /\ nextId <= MaxAddsCap
  /\ \E txc \in {t \in ContractTransaction : t.blockNumber = 0} :
       add(topUp(nextId, txc))

UpdateStatusCap ==
  /\ StatusSubscribers(subscribers) < MaxUpdatesCap
  /\ \E hash \in Hashes : updateStatus(hash, Rejected)

UpdateAllCap ==
  \E status \in {Included} : updateAll([i \in 1..Len(txs) |-> status])

NextCap == AddCap \/ UpdateStatusCap \/ UpdateAllCap \/ Timer \/ Subscribe

SpecCap == Init /\ [][NextCap]_vars

\* The ledger, its callers and a presentation-layer subscriber.
NextView == Add \/ UpdateStatus \/ UpdateAll \/ Timer \/ Subscribe

SpecView == Init /\ [][NextView]_vars

\* The ledger and consumers of the exported store.
StoreSet == storeSet(<<>>)

ListPop == listPop

NextConsumer == Add \/ UpdateStatus \/ UpdateAll \/ Subscribe \/ StoreSet \/ ListPop

SpecConsumer == Init /\ [][NextConsumer]_vars

\* The ledger with a status lookup that can throw.
UpdateAllThrows ==
  \E lk \in [1..Len(txs) -> lookupStatus \cup {Throws}] : updateAllThrows(lk)

NextThrow == Add \/ UpdateStatus \/ UpdateAll \/ UpdateAllThrows

SpecThrow == Init /\ [][NextThrow]_vars

\* The smart constructors.
NextTx == AmountPerBlock \/ Beneficiaries \/ Collect \/ TopUp

SpecTx == Init /\ [][NextTx]_vars

\* The sketch ledger of the pool module.
NextPool == AddTx \/ UpdateTxStatus \/ PoolUpdateAll

SpecPool == Init /\ [][NextPool]_vars

\* The router with overlapping calls.
NextRouter == Push \/ Pop \/ Initialize \/ Resume

SpecRouter == Init /\ [][NextRouter]_vars

\* The router with every call awaited before the next one.
NextRouterSeq == PushSeq \/ PopSeq \/ InitializeSeq \/ Resume

SpecRouterSeq == Init /\ [][NextRouterSeq]_vars

\* The alerts store under Show and Remove actions.
NextAlerts == ShowAlert \/ RemoveAlert

SpecAlerts == Init /\ [][NextAlerts]_vars

-----------------------------------------------------------------------------
(* Properties *)

\* The number of add calls so far.
Added == nextId - 1

\* The positions of the records of a list that carry the hash.
Matching(list, hash) == {i \in 1..Len(list) : list[i].hash = hash}

\* The subscriber the last updateStatus call registered: its hash and status
\* are the arguments of that call.
Registered(subs) == subs[Len(subs)]

IsTerminal(status) == status \in {Included, Rejected}

\* The transitions of the life cycle of a transaction.
Transitions ==
  {<<PendingApproval, AwaitingInclusion>>,
   <<AwaitingInclusion, Included>>,
   <<AwaitingInclusion, Rejected>>}

\* C1: when add returns, the retained records are the Min(k, 7) most recently
\* added ones, oldest first (k the number of add calls so far): eviction drops
\* the oldest record.
C1_NewestRetained ==
  last.op = "add" =>
    /\ Len(txs) = Min(Added, Capacity)
    /\ \A i \in 1..Len(txs) : txs[i].id = Added - Len(txs) + i

\* C2: a step of updateStatus or updateAll leaves the status of every record
\* that is Included or Rejected as it is.
C2_TerminalStays ==
  [][last'.op \in {"updateStatus", "updateAll"} =>
       \A i \in 1..Len(txs) :
         IsTerminal(txs[i].status) =>
           \A j \in 1..Len(txs') :
             txs'[j].id = txs[i].id => txs'[j].status = txs[i].status]_vars

\* C3: when any call returns, the ledger holds Min(k, 7) records, k being the
\* number of add calls so far.
C3_Length == Len(txs) = Min(Added, Capacity)

C3_Witness ==
  /\ Added > Capacity
  /\ Len(txs) = Capacity
  /\ last.op \in {"add", "updateAll"}

\* C4: updateStatus(hash, s) with exactly one retained record of that hash
\* sets the status of that record to s and changes nothing else: the record's
\* identity, hash and payload, every other record, the length and the order.
C4_UpdateStatusFrame ==
  [][(/\ last'.op = "updateStatus"
      /\ Cardinality(Matching(txs, Registered(subscribers').hash)) = 1) =>
       /\ Len(txs') = Len(txs)
       /\ \A i \in 1..Len(txs) :
            txs'[i] = IF txs[i].hash = Registered(subscribers').hash
                      THEN [txs[i] EXCEPT !.status = Registered(subscribers').status]
                      ELSE txs[i]]_vars

C4_Witness ==
  /\ last.op = "updateStatus"
  /\ Len(txs) = 2
  /\ Matching(txs, Registered(subscribers).hash) = {2}
  /\ txs[2].status = Registered(subscribers).status
  /\ txs[2].status = PendingApproval
  /\ txs[1].status = Included

\* C5: updateStatus(hash, s) with no retained record of that hash leaves the
\* ledger as it is.
C5_UpdateStatusAbsent ==
  [][(/\ last'.op = "updateStatus"
      /\ Matching(txs, Registered(subscribers').hash) = {}) =>
       txs' = txs]_vars

C5_Witness ==
  /\ last.op = "updateStatus"
  /\ txs # <<>>
  /\ Matching(txs, Registered(subscribers).hash) = {}

\* C6: updateAll changes neither the length of the ledger nor the order of its
\* records nor a record's hash or payload.
C6_UpdateAllFrame ==
  [][last'.op = "updateAll" =>
       /\ Len(txs') = Len(txs)
       /\ \A i \in 1..Len(txs) :
            /\ txs'[i].id = txs[i].id
            /\ txs'[i].hash = txs[i].hash
            /\ txs'[i].inner = txs[i].inner]_vars

C6_Witness ==
  /\ last.op = "updateAll"
  /\ last.lookups = 2
  /\ Len(txs) = 2
  /\ subscribers = <<>>
  /\ txs[1].status = Rejected
  /\ txs[2].status = PendingApproval

\* C7: when updateAll returns, every record for which the lookup returned a
\* status has that status, and every other record has the status it had.
C7_LookupDecides ==
  [][\A lk \in [1..Len(txs) -> lookupStatus] :
       updateAll(lk) =>
         \A i \in 1..Len(txs) :
           txs'[i].status = IF lk[i] # Undefined THEN lk[i] ELSE txs[i].status]_vars

\* C8: a firing of the interval timer looks up the status of every retained
\* record.
C8_TimerRefreshes == last.op = "timer" => last.lookups = Len(txs)

\* C9: once the presentation layer has subscribed, the list it was last
\* called with is the current content of the ledger whenever a call returns.
C9_SubscriberCurrent == ViewIndex(subscribers) # 0 => delivered = txs

\* C10: every change of a record's status by updateStatus or updateAll is a
\* transition of the life cycle.
C10_LifeCycle ==
  [][last'.op \in {"updateStatus", "updateAll"} =>
       \A i \in 1..Len(txs) :
         \A j \in 1..Len(txs') :
           (txs'[j].id = txs[i].id /\ txs'[j].status # txs[i].status) =>
             <<txs[i].status, txs'[j].status>> \in Transitions]_vars

\* C11: the hashes of the retained records are pairwise distinct.
C11_HashesDistinct ==
  \A i \in 1..Len(txs) : \A j \in 1..Len(txs) :
    i # j => txs[i].hash # txs[j].hash

\* C14: updateStatus(hash, s) with several retained records of that hash sets
\* the status of the earliest of them to s and leaves every other record, the
\* later ones of that hash among them, as it is.
C14_FirstMatchOnly ==
  [][(/\ last'.op = "updateStatus"
      /\ Cardinality(Matching(txs, Registered(subscribers').hash)) >= 2) =>
       /\ Len(txs') = Len(txs)
       /\ \A i \in 1..Len(txs) :
            txs'[i] =
              IF /\ i \in Matching(txs, Registered(subscribers').hash)
                 /\ \A j \in Matching(txs, Registered(subscribers').hash) : i <= j
              THEN [txs[i] EXCEPT !.status = Registered(subscribers').status]
              ELSE txs[i]]_vars

C14_Witness ==
  /\ last.op = "updateStatus"
  /\ Len(txs) = 2
  /\ Matching(txs, Registered(subscribers).hash) = {1, 2}
  /\ Registered(subscribers).status = Rejected
  /\ txs[1].status = Rejected
  /\ txs[2].status = AwaitingInclusion

\* The positions of the updateStatus subscriptions on the hash.
Naming(subs, hash) ==
  {i \in 1..Len(subs) : subs[i].kind = "updateStatus" /\ subs[i].hash = hash}

C20_NotifiedWithinCapacity == last.longest <= Capacity

\* C12: the contents of the ledger change only in calls of add, updateStatus
\* and updateAll.
C12_ReadOnlyView ==
  [][txs' # txs => last'.op \in {"add", "updateStatus", "updateAll"}]_vars

C15_PendingApprovalWritten ==
  poolLast.op = "updateAll" =>
    \A i \in 1..Len(transactions) :
      poolLast.lk[i] = PoolPendingApproval =>
        transactions[i].status = PoolPendingApproval

\* C16: a record built by a smart constructor has the hash of the contract
\* transaction, status Included if the contract transaction has a block
\* number and AwaitingInclusion if it has none.
C16_ConstructorStatus ==
  built.by # "none" =>
    /\ built.tx.hash = built.txc.hash
    /\ built.txc.blockNumber # 0 => built.tx.status = Included
    /\ built.txc.blockNumber = 0 => built.tx.status = AwaitingInclusion
    /\ built.tx.status \notin {PendingApproval, Rejected}

C16_Witness ==
  /\ built.by = "collect"
  /\ built.txc.blockNumber = MaxBlock
  /\ built.tx.status = Included
  /\ built.tx.hash = "0x3"

\* The last n entries of a list.
Suffix(list, n) ==
  [i \in 1..Min(Len(list), n) |-> list[Len(list) - Min(Len(list), n) + i]]

\* C17: when a push(r) that read history H completes, the history is the last
\* 10 entries of H followed by r, and the history never has more than 10
\* entries.
C17_PushKeepsLastTen ==
  /\ Len(historyStore) <= HistoryLimit
  /\ (routerLast.op = "push" /\ routerLast.phase = "done") =>
       historyStore = Suffix(Append(routerLast.read, routerLast.route), HistoryLimit)

\* A push on a full history: its oldest entry is gone and r is the last.
C17_Witness ==
  /\ routerLast.op = "push"
  /\ routerLast.phase = "done"
  /\ Len(routerLast.read) = HistoryLimit
  /\ routerLast.read[1] # routerLast.read[2]
  /\ historyStore[1] = routerLast.read[2]
  /\ historyStore[HistoryLimit] = routerLast.route
  /\ routerLast.route # routerLast.read[HistoryLimit]

\* C18: once a setHistory has completed, the active route is the loaded form
\* of the last entry of the history.
C18_StoresAgree ==
  \/ activeRouteStore = loadRoute(historyStore[Len(historyStore)])
  \/ /\ activeRouteStore = INITIAL_ROUTE
     /\ historyStore = <<DEFAULT_ROUTE>>
     /\ windowState = Null

\* Two calls overlapped and both have completed, a push to settings last.
C18_Witness ==
  /\ routerLast.phase = "done"
  /\ routerLast.op = "push"
  /\ routerLast.overlapped
  /\ started = 2
  /\ calls = <<>>
  /\ historyStore = <<DEFAULT_ROUTE, [type |-> "settings"]>>
  /\ activeRouteStore = loadRoute([type |-> "settings"])

\* The routes a history holds.
RoutesOf(history) == {history[i] : i \in 1..Len(history)}

\* C21: when push(a) and push(b) were both started before either completed,
\* the history holds both a and b once the second of them completes.
C21_NoLostNavigation ==
  [][(/\ started = 2
      /\ routerLast.phase = "done"
      /\ routerLast.op = "push"
      /\ routerLast.overlapped
      /\ Len(calls) = 1
      /\ calls[1].op = "push"
      /\ calls[1].overlapped
      /\ calls' = <<>>) =>
       {routerLast.route, calls[1].route} \subseteq RoutesOf(historyStore')]_vars

\* The ids of the alerts on show.
IdsOf(list) == {list[i].id : i \in 1..Len(list)}

\* C22: the alerts on show have ids in strictly increasing order (hence
\* pairwise distinct), each below idCounter; Show appends its payload with
\* the current idCounter as id, whatever id the payload carries; Remove leaves
\* idCounter alone; an id that was removed is never on show again.
C22_AlertIds ==
  [][/\ \A i \in 1..Len(all') : all'[i].id < idCounter'
     /\ \A i \in 1..Len(all') : \A j \in 1..Len(all') :
          i < j => all'[i].id < all'[j].id
     /\ alertsLast'.type = "Show" =>
          /\ Len(all') = Len(all) + 1
          /\ \A i \in 1..Len(all) : all'[i] = all[i]
          /\ all'[Len(all')].id = idCounter
          /\ all'[Len(all')].severity = alertsLast'.alert.severity
          /\ all'[Len(all')].message = alertsLast'.alert.message
          /\ idCounter' = idCounter + 1
     /\ alertsLast'.type = "Remove" => idCounter' = idCounter
     /\ IdsOf(all') \cap removedIds' = {}]_vars

\* An alert was removed, and a Show whose payload carries the removed id has
\* put an alert with a new id after one that stayed.
C22_Witness ==
  /\ alertsLast.type = "Show"
  /\ alertsLast.alert.id \in removedIds
  /\ Len(all) = 2
  /\ all[2].id = idCounter - 1
  /\ all[2].id # alertsLast.alert.id

====
